---- MODULE Spec2Model ----
(***************************************************************************)
(* csharp/lib/version.py: synchronization of the C# assembly version with  *)
(* the upstream Java pom.xml version, with Mercurial history as the source *)
(* of the committed state.                                                 *)
(*                                                                         *)
(* Text is modelled at character level where the code parses or formats it *)
(* (the content of the pom's <version> element, the quoted literal of an   *)
(* attribute declaration): a text is a sequence of one-character strings.  *)
(* AssemblyInfo.cs is a sequence of segments: opaque text, or a            *)
(* declaration  Name("lit"  with its quoted literal.                       *)
(***************************************************************************)
EXTENDS Integers, Sequences, FiniteSets, TLC

\* ------------------------------------------------------------------ bounds
\* Most revisions a history of Spec holds (commits stop there).
MaxRevs == 3
\* Longest first-parent chain of the histories SpecWalk starts from.
MaxChain == 4

\* ------------------------------------------------------- python primitives
Digits == <<"0", "1", "2", "3", "4", "5", "6", "7", "8", "9">>

IsDigit(c) == \E i \in 1..10 : Digits[i] = c

DigitVal(c) == (CHOOSE i \in 1..10 : Digits[i] = c) - 1

AllDigits(s) == \A i \in 1..Len(s) : IsDigit(s[i])

\* int(s) of a non-empty all-digit text (anything else raises ValueError).
RECURSIVE ParseInt(_)
ParseInt(s) ==
  IF s = <<>> THEN 0
  ELSE ParseInt(SubSeq(s, 1, Len(s) - 1)) * 10 + DigitVal(s[Len(s)])

IntOk(s) == s # <<>> /\ AllDigits(s)

\* str(n) of a non-negative integer.
RECURSIVE Str(_)
Str(n) ==
  IF n < 10 THEN <<Digits[n + 1]>>
  ELSE Str(n \div 10) \o <<Digits[(n % 10) + 1]>>

\* s.split('.')
RECURSIVE Split(_)
Split(s) ==
  IF \A i \in 1..Len(s) : s[i] # "." THEN <<s>>
  ELSE LET k == CHOOSE i \in 1..Len(s) :
                  s[i] = "." /\ \A j \in 1..(i - 1) : s[j] # "."
       IN <<SubSeq(s, 1, k - 1)>> \o Split(SubSeq(s, k + 1, Len(s)))

\* '.'.join(str(p) for p in ver)
RECURSIVE Join(_)
Join(ver) ==
  IF ver = <<>> THEN <<>>
  ELSE IF Len(ver) = 1 THEN Str(ver[1])
  ELSE Str(ver[1]) \o <<".">> \o Join(Tail(ver))

\* t[:n]
Take(t, n) == SubSeq(t, 1, IF Len(t) < n THEN Len(t) ELSE n)

\* Length of the maximal run of digits s starts with (a greedy \d+).
LeadDigits(s) ==
  CHOOSE n \in 0..Len(s) :
    /\ \A i \in 1..n : IsDigit(s[i])
    /\ (n = Len(s) \/ ~IsDigit(s[n + 1]))

\* Length of the prefix of s that \d+(\.\d+){k-1} matches, -1 without a match.
RECURSIVE VerPrefixLen(_, _)
VerPrefixLen(s, k) ==
  LET n == LeadDigits(s) IN
  IF n = 0 THEN -1
  ELSE IF k = 1 THEN n
  ELSE IF n + 1 <= Len(s) /\ s[n + 1] = "."
       THEN LET r == VerPrefixLen(SubSeq(s, n + 2, Len(s)), k - 1)
            IN IF r = -1 THEN -1 ELSE n + 1 + r
       ELSE -1

\* --------------------------------------------------------------- the files
\* The content of a pom's <version> element: text, then -SNAPSHOT or not.
Txt22 == <<"2", ".", "2">>
Txt23 == <<"2", ".", "3">>
Txt47 == <<"4", ".", "7">>
Txt123 == <<"1", "2", "3">>
Txt1x2 == <<"1", "x", "2">>
Txt7 == <<"7">>

Pom(t, s) == [text |-> t, snapshot |-> s]

Descriptors ==
  { Pom(Txt22, FALSE), Pom(Txt23, TRUE), Pom(Txt47, FALSE),
    Pom(Txt123, FALSE), Pom(Txt1x2, TRUE), Pom(Txt7, FALSE) }

TextSeg(id) == [kind |-> "text", name |-> id, lit |-> <<>>]
Decl(n, l) == [kind |-> "decl", name |-> n, lit |-> l]

Lit4609 == <<"4", ".", "6", ".", "0", ".", "9">>
Lit220118 == <<"2", ".", "2", ".", "0", ".", "1", "1", "8">>
Lit10Star == <<"1", ".", "0", ".", "*">>

\* Two declarations and an unrelated one.
AsmPlain ==
  << TextSeg("header"), Decl("AssemblyTitle", <<"x">>),
     Decl("AssemblyVersion", Lit4609), TextSeg("between"),
     Decl("AssemblyFileVersion", Lit4609), TextSeg("trailer") >>

\* The project template's commented-out line above the two declarations.
AsmTemplate ==
  << TextSeg("// [assembly: "), Decl("AssemblyVersion", Lit10Star),
     Decl("AssemblyVersion", Lit220118), TextSeg("between"),
     Decl("AssemblyFileVersion", Lit220118) >>

\* No version declaration at all.
AsmBare == << TextSeg("header"), Decl("AssemblyTitle", <<"x">>) >>

AsmFiles == {AsmPlain, AsmTemplate, AsmBare}

\* ------------------------------------------------------------------- state
VARIABLES
  revs,        \* committed history: revs[r] = [p1, p2, desc, asm]; 0 is no revision
  tip,         \* the revision '.' names: the working copy's first parent
  wcAsm,       \* AssemblyInfo.cs in the working copy
  otherDirty,  \* uncommitted changes to files other than AssemblyInfo.cs
  pc,          \* where the script is: idle, walk, prevbuild, update, done
  rev,         \* getjavaver's rev, resolved: a revision, or 0 (empty revision set)
  ver,         \* ver of __main__
  err,         \* the exception that ended the run, "none" without one
  idout,       \* stdout of this run's hg id -n, <<>> before it ran
  hgFailed,    \* an hg process of this run exited non-zero
  reads,       \* revisions whose pom.xml this run has read
  writes,      \* writes of AssemblyInfo.cs by this run
  asm0,        \* AssemblyInfo.cs in the working copy when the run started
  synced,      \* a run since the last commit rewrote or kept the file successfully
  edited       \* the working copy's AssemblyInfo.cs was edited by hand

vars == << revs, tip, wcAsm, otherDirty, pc, rev, ver, err, idout, hgFailed,
           reads, writes, asm0, synced, edited >>

ErrHg == "hg cat failed"
ErrPom == "cannot extract version number from pom file"
ErrAsm == "cannot extract version from AssemblyInfo.cs"
ErrValue == "ValueError"

\* ------------------------------------------------------------ the script
\* hg id -n prints a trailing '+' iff the working copy has uncommitted changes.
WorkingCopyDirty == otherDirty \/ wcAsm # revs[tip].asm

\* stdout of hg id -n: the local number of '.', then '+' with uncommitted
\* changes; a failed hg prints nothing on stdout. (Popen gets an argument
\* list with shell=True: the list reaches hg as on Windows, where the tool
\* chain of this port runs.)
HgId(hgOk) ==
  IF ~hgOk THEN <<>>
  ELSE Str(tip - 1) \o (IF WorkingCopyDirty THEN <<"+">> ELSE <<>>)

\* A guard that lost its test: every working copy counts as changed.
haschangesAlways(stdout) == TRUE

\* stdout.strip().endswith('+'): the exit status is not looked at.
haschanges(stdout) == stdout # <<>> /\ stdout[Len(stdout)] = "+"

\* re.search(r'<version>(\d+.\d+)(-SNAPSHOT)?</version>', data): the dot is any
\* character.
PomMatches(data) ==
  \E k \in 2..(Len(data.text) - 1) :
    /\ AllDigits(SubSeq(data.text, 1, k - 1))
    /\ AllDigits(SubSeq(data.text, k + 1, Len(data.text)))

\* readjavaver after a successful hgcat: the outcome and the pair returned.
readjavaver(data) ==
  IF ~PomMatches(data) THEN [st |-> ErrPom, ver |-> <<>>, snapshot |-> FALSE]
  ELSE LET parts == Split(data.text) IN
       IF \E i \in 1..Len(parts) : ~IntOk(parts[i])
       THEN [st |-> ErrValue, ver |-> <<>>, snapshot |-> FALSE]
       ELSE [st |-> "ok",
             ver |-> Take([i \in 1..Len(parts) |-> ParseInt(parts[i])], 2),
             snapshot |-> data.snapshot]

\* The walk following the second parent of a merge.
ParentRevSecond(r) == revs[r].p2

\* The walk never leaving the revision it is at.
ParentRevSelf(r) == r

\* 'p1(%s)' % rev, resolved: the first parent, the empty set for the root.
ParentRev(r) == revs[r].p1

\* re.search(r'AssemblyVersion\("(\d+\.\d+\.\d+\.\d+)', stdout): the segments
\* the pattern matches.
PrevBuildMatches(data) ==
  { i \in 1..Len(data) :
      /\ data[i].kind = "decl"
      /\ data[i].name = "AssemblyVersion"
      /\ VerPrefixLen(data[i].lit, 4) # -1 }

\* int(m.group(1).split('.')[3]) of the first match.
PrevBuild(data) ==
  LET i == CHOOSE j \in PrevBuildMatches(data) :
             \A k \in PrevBuildMatches(data) : j <= k
      g == SubSeq(data[i].lit, 1, VerPrefixLen(data[i].lit, 4))
  IN ParseInt(Split(g)[4])

\* The previous build taken from the working copy's file.
PrevBuildSourceWorkingCopy == wcAsm

\* The file getcsharpprevbuild reads: hgcat(rootdir, asmfile, '.').
PrevBuildSource == revs[tip].asm

\* The build advanced by two.
NextVerPlusTwo(v, build) == Take(v, 2) \o <<0, build + 2>>

\* ver[:2] + (0, build + 1)
NextVer(v, build) == Take(v, 2) \o <<0, build + 1>>

\* (ver + (0, 0, 0, 0))[:4], joined.
VerString(v) == Join(Take(v \o <<0, 0, 0, 0>>, 4))

\* The pattern without its AssemblyFileVersion alternative.
IsVersionDeclFirstOnly(seg) ==
  /\ seg.kind = "decl"
  /\ seg.name = "AssemblyVersion"
  /\ Len(seg.lit) >= 1

\* What ((?:AssemblyVersion|AssemblyFileVersion)\(")([^"]+) matches.
IsVersionDecl(seg) ==
  /\ seg.kind = "decl"
  /\ seg.name \in {"AssemblyVersion", "AssemblyFileVersion"}
  /\ Len(seg.lit) >= 1

\* re.subn(..., r'\g<1>' + ver, data): the rewritten file and the count.
Rewritten(data, s) ==
  [i \in 1..Len(data) |->
     IF IsVersionDecl(data[i]) THEN [data[i] EXCEPT !.lit = s] ELSE data[i]]

SubCount(data) == Cardinality({i \in 1..Len(data) : IsVersionDecl(data[i])})

\* The write done whatever the comparison says.
ShouldWriteAlways(rewritten, data) == TRUE

\* if rewritten != data
ShouldWrite(rewritten, data) == rewritten # data

RunVars == << rev, ver, err, idout, hgFailed, reads, writes, asm0 >>
RepoVars == << revs, tip, otherDirty, edited >>

\* Raise: the run ends with the exception, nothing else changes.
Abort(e) == pc' = "done" /\ err' = e

\* __main__ up to the guard.
Start ==
  /\ pc = "idle"
  /\ \E hgOk \in BOOLEAN :
       /\ hgFailed' = ~hgOk
       /\ idout' = HgId(hgOk)
       /\ IF haschanges(HgId(hgOk))
          THEN pc' = "walk" /\ rev' = tip
          ELSE pc' = "done" /\ UNCHANGED rev
  /\ asm0' = wcAsm
  /\ UNCHANGED << RepoVars, wcAsm, ver, err, reads, writes, synced >>

\* One iteration of getjavaver's loop.
ReadJavaVer ==
  /\ pc = "walk"
  /\ \E hgOk \in BOOLEAN :
       IF ~hgOk \/ rev = 0
       THEN /\ Abort(ErrHg)
            /\ hgFailed' = TRUE
            /\ UNCHANGED << rev, ver, reads >>
       ELSE LET r == readjavaver(revs[rev].desc) IN
            /\ reads' = Append(reads, rev)
            /\ hgFailed' = hgFailed
            /\ IF r.st # "ok"
               THEN Abort(r.st) /\ UNCHANGED << rev, ver >>
               ELSE IF ~r.snapshot
               THEN pc' = "prevbuild" /\ ver' = r.ver /\ UNCHANGED << rev, err >>
               ELSE pc' = "walk" /\ rev' = ParentRev(rev) /\ UNCHANGED << ver, err >>
  /\ UNCHANGED << RepoVars, wcAsm, idout, writes, asm0, synced >>

\* getcsharpprevbuild and the new tuple.
GetPrevBuild ==
  /\ pc = "prevbuild"
  /\ \E hgOk \in BOOLEAN :
       IF ~hgOk
       THEN Abort(ErrHg) /\ hgFailed' = TRUE /\ UNCHANGED ver
       ELSE /\ hgFailed' = hgFailed
            /\ IF PrevBuildMatches(PrevBuildSource) = {}
               THEN Abort(ErrAsm) /\ UNCHANGED ver
               ELSE /\ ver' = NextVer(ver, PrevBuild(PrevBuildSource))
                    /\ pc' = "update"
                    /\ UNCHANGED err
  /\ UNCHANGED << RepoVars, wcAsm, rev, idout, reads, writes, asm0, synced >>

\* updatecsharpver.
UpdateCsharpVer ==
  /\ pc = "update"
  /\ LET rewritten == Rewritten(wcAsm, VerString(ver)) IN
     IF SubCount(wcAsm) = 0
     THEN Abort(ErrAsm) /\ UNCHANGED << wcAsm, writes >>
     ELSE /\ pc' = "done"
          /\ UNCHANGED err
          /\ IF ShouldWrite(rewritten, wcAsm)
             THEN wcAsm' = rewritten /\ writes' = writes + 1
             ELSE UNCHANGED << wcAsm, writes >>
  /\ UNCHANGED << RepoVars, rev, ver, idout, hgFailed, reads, asm0, synced >>

\* The process exits.
Finish ==
  /\ pc = "done"
  /\ pc' = "idle"
  /\ synced' = (synced \/ (haschanges(idout) /\ err = "none"))
  /\ rev' = 0 /\ ver' = <<>> /\ err' = "none" /\ idout' = <<>>
  /\ hgFailed' = FALSE /\ reads' = <<>> /\ writes' = 0 /\ asm0' = wcAsm
  /\ UNCHANGED << RepoVars, wcAsm >>

\* --------------------------------------------------------- the repository
\* A local change to some other file (a merge, an edit).
Touch ==
  /\ pc = "idle"
  /\ ~otherDirty
  /\ otherDirty' = TRUE
  /\ UNCHANGED << revs, tip, edited, wcAsm, pc, RunVars, synced >>

\* hg commit: the working copy becomes a new revision on top of '.'.
Commit ==
  /\ pc = "idle"
  /\ WorkingCopyDirty
  /\ Len(revs) < MaxRevs
  /\ \E d \in Descriptors :
       /\ (d # revs[tip].desc => otherDirty)
       /\ revs' = Append(revs, [p1 |-> tip, p2 |-> 0, desc |-> d, asm |-> wcAsm])
  /\ tip' = Len(revs) + 1
  /\ otherDirty' = FALSE
  /\ synced' = FALSE
  /\ UNCHANGED << edited, wcAsm, pc, RunVars >>

Run == Start \/ ReadJavaVer \/ GetPrevBuild \/ UpdateCsharpVer \/ Finish

Rev(p, q, d, a) == [p1 |-> p, p2 |-> q, desc |-> d, asm |-> a]

RunInit ==
  /\ pc = "idle" /\ rev = 0 /\ ver = <<>> /\ err = "none" /\ idout = <<>>
  /\ hgFailed = FALSE /\ reads = <<>> /\ writes = 0 /\ asm0 = wcAsm
  /\ synced = FALSE

\* A repository of one revision, the working copy clean or not.
Init ==
  /\ \E d \in Descriptors, a \in AsmFiles : revs = << Rev(0, 0, d, a) >>
  /\ tip = 1
  /\ wcAsm \in AsmFiles
  /\ edited = (wcAsm # revs[1].asm)
  /\ otherDirty \in BOOLEAN
  /\ RunInit

Next == Run \/ Touch \/ Commit

Spec == Init /\ [][Next]_vars

\* A first-parent chain c[1] (the root) .. c[n] (the tip); with a side branch,
\* the tip is a merge whose second parent is a revision off the root.
WalkHistory(c, side) ==
  LET n == Len(c) IN
  [i \in 1..n |->
     Rev(i - 1, IF i = n /\ side # <<>> THEN n + 1 ELSE 0, c[i], AsmPlain)]
  \o [i \in 1..Len(side) |-> Rev(1, 0, side[i], AsmPlain)]

InitWalk ==
  /\ \E n \in 1..MaxChain :
       \E c \in [1..n -> Descriptors] :
         \E side \in {<<>>} \cup {<<d>> : d \in IF n >= 2 THEN Descriptors ELSE {}} :
           /\ revs = WalkHistory(c, side)
           /\ tip = n
  /\ wcAsm = AsmPlain
  /\ edited = FALSE
  /\ otherDirty = TRUE
  /\ RunInit

NextWalk == Run

SpecWalk == InitWalk /\ [][NextWalk]_vars

(***************************************************************************)
(* What the claims speak of, stated apart from the script's own parsing.   *)
(***************************************************************************)
\* s is n dot-separated numbers and nothing else.
IsDotted(s, n) ==
  /\ Len(Split(s)) = n
  /\ \A i \in 1..n : IntOk(Split(s)[i])

Numbers(s) == [i \in 1..Len(Split(s)) |-> ParseInt(Split(s)[i])]

\* The descriptor's version has the shape major.minor[-SNAPSHOT].
WellFormed(d) == IsDotted(d.text, 2)

\* A textual occurrence of one of the two version attributes with a literal.
IsOccurrence(seg) ==
  /\ seg.kind = "decl"
  /\ seg.name \in {"AssemblyVersion", "AssemblyFileVersion"}
  /\ seg.lit # <<>>

Occurrences(file) == {i \in 1..Len(file) : IsOccurrence(file[i])}

\* The AssemblyVersion("a.b.c.d") declarations of a file.
BuildDecls(file) ==
  { i \in 1..Len(file) :
      /\ file[i].kind = "decl"
      /\ file[i].name = "AssemblyVersion"
      /\ IsDotted(file[i].lit, 4) }

HasBuild(file) == BuildDecls(file) # {}

\* The build number a file records.
RecordedBuild(file) ==
  Numbers(file[CHOOSE i \in BuildDecls(file) : TRUE].lit)[4]

\* The first-parent chain from revision r back to the root.
RECURSIVE FirstParentChain(_)
FirstParentChain(r) ==
  IF r = 0 THEN <<>> ELSE <<r>> \o FirstParentChain(revs[r].p1)

Chain == FirstParentChain(tip)

\* Positions of the chain whose descriptor carries no snapshot marker.
Releases == {i \in 1..Len(Chain) : ~revs[Chain[i]].desc.snapshot}

FirstRelease == CHOOSE i \in Releases : \A j \in Releases : i <= j

ReportedDirty == pc # "idle" /\ idout # <<>> /\ idout[Len(idout)] = "+"

ReportedClean == pc # "idle" /\ idout # <<>> /\ idout[Len(idout)] # "+"

\* The run ended without an exception, on a working copy reported dirty.
Succeeded == pc = "done" /\ ReportedDirty /\ err = "none"

\* C1: a successful run on a dirty working copy whose committed file records
\* build B and whose upstream version resolves to the well-formed major.minor
\* leaves both declarations at major.minor.0.(B+1).
C1_NextBuild ==
  (Succeeded /\ WellFormed(revs[Chain[FirstRelease]].desc))
    => /\ HasBuild(revs[tip].asm)
       /\ \A i \in Occurrences(wcAsm) :
            /\ IsDotted(wcAsm[i].lit, 4)
            /\ Numbers(wcAsm[i].lit) =
                 Numbers(revs[Chain[FirstRelease]].desc.text)
                 \o <<0, RecordedBuild(revs[tip].asm) + 1>>
       /\ \E i \in Occurrences(wcAsm) : wcAsm[i].name = "AssemblyVersion"

\* C1 witness: 4.6.0.9 committed, 2.2 upstream behind a snapshot: 2.2.0.10 written.
C1_Witness ==
  /\ Succeeded
  /\ writes = 1
  /\ Len(reads) = 2
  /\ revs[tip].asm = AsmPlain
  /\ wcAsm[3].lit = <<"2", ".", "2", ".", "0", ".", "1", "0">>
  /\ wcAsm[5].lit = <<"2", ".", "2", ".", "0", ".", "1", "0">>

\* C2: when hg id reports a clean working copy the run ends at once: no error,
\* no write, no read of a descriptor, the file as it was.
C2_CleanNoOp ==
  ReportedClean
    => /\ pc = "done"
       /\ err = "none"
       /\ writes = 0
       /\ reads = <<>>
       /\ ver = <<>>
       /\ wcAsm = asm0

\* C2 witness: a clean run over a malformed descriptor and a file with no
\* version declaration.
C2_Witness ==
  /\ ReportedClean
  /\ pc = "done"
  /\ ~WellFormed(revs[tip].desc)
  /\ ~HasBuild(revs[tip].asm)

\* C3: the walk reads the first-parent chain from '.' in order, stops at the
\* first descriptor without a snapshot marker, and returns its major.minor.
C3_FirstParentWalk ==
  /\ Len(reads) <= Len(Chain)
  /\ \A i \in 1..Len(reads) :
       /\ reads[i] = Chain[i]
       /\ (i < Len(reads) => revs[reads[i]].desc.snapshot)
  /\ (pc \in {"prevbuild", "update"}
        => /\ Releases # {}
           /\ Len(reads) = FirstRelease
           /\ (WellFormed(revs[Chain[FirstRelease]].desc)
                 => Take(ver, 2) = Numbers(revs[Chain[FirstRelease]].desc.text)))

\* C3 witness: '.' and its parent are snapshots, the grandparent is 2.2, the
\* root is 4.7 and the second parent of '.' is 4.7: the walk returned (2, 2).
C3_Witness ==
  /\ pc = "prevbuild"
  /\ Len(Chain) = 4
  /\ reads = SubSeq(Chain, 1, 3)
  /\ ver = <<2, 2>>
  /\ revs[Chain[4]].desc = Pom(Txt47, FALSE)
  /\ revs[tip].p2 # 0
  /\ revs[revs[tip].p2].desc = Pom(Txt47, FALSE)

\* C4: a run in which an hg process failed ends with the hg error and without
\* a write.
C4_QueryFailureIsFatal ==
  (pc = "done" /\ hgFailed) => (err = ErrHg /\ wcAsm = asm0 /\ writes = 0)

\* C5: on a dirty working copy, a descriptor read by the walk that is not
\* major.minor[-SNAPSHOT], or a committed file without an AssemblyVersion
\* declaration once the walk has resolved, ends the run with a format error
\* and the file unchanged.
C5_MalformedIsFatal ==
  ( /\ pc = "done"
    /\ ReportedDirty
    /\ ~hgFailed
    /\ \/ \E i \in 1..Len(reads) : ~WellFormed(revs[reads[i]].desc)
       \/ (reads # <<>> /\ ~revs[reads[Len(reads)]].desc.snapshot
             /\ ~HasBuild(revs[tip].asm)) )
    => (err \in {ErrPom, ErrAsm, ErrValue} /\ wcAsm = asm0 /\ writes = 0)

AllSnapshots ==
  \A i \in 1..Len(Chain) :
    revs[Chain[i]].desc.snapshot /\ WellFormed(revs[Chain[i]].desc)

ErrNotFound == "upstream release not found"

\* C6 as claimed: a chain of snapshots only, read to its end, ends the run
\* with the traversal-exhausted error and no write.
C6_TraversalExhausted ==
  (pc = "done" /\ ReportedDirty /\ AllSnapshots /\ Len(reads) = Len(Chain))
    => (err = ErrNotFound /\ wcAsm = asm0 /\ writes = 0)

\* C6 amended: the walk reads each revision of the first-parent chain at most
\* once, and on a chain of snapshots only the run ends with the hg error
\* (the read of the root's parent fails) and no write.
C6_WalkEndsAtRoot ==
  /\ Len(reads) <= Len(Chain)
  /\ (pc = "done" /\ ReportedDirty /\ AllSnapshots)
       => (err = ErrHg /\ hgFailed /\ wcAsm = asm0 /\ writes = 0)

\* C6 witness: three snapshots and nothing else, all read, the run over.
C6_Witness ==
  /\ pc = "done"
  /\ ReportedDirty
  /\ AllSnapshots
  /\ Len(Chain) = 3
  /\ Len(reads) = 3
  /\ rev = 0

\* C7: after a successful run, further runs before the next commit leave the
\* file as the first left it and write nothing.
C7_RerunKeepsFile ==
  (pc = "done" /\ synced) => (wcAsm = asm0 /\ writes = 0)

\* C7 witness: a second successful run on the rewritten, uncommitted file.
C7_Witness ==
  /\ Succeeded
  /\ synced
  /\ reads # <<>>
  /\ HasBuild(wcAsm)
  /\ HasBuild(revs[tip].asm)
  /\ RecordedBuild(wcAsm) = RecordedBuild(revs[tip].asm) + 1

\* C8 as claimed: a rewrite changes the literals of one AssemblyVersion and
\* one AssemblyFileVersion declaration to the same string and nothing else.
C8_OnlyTwoLiterals ==
  (pc = "done" /\ writes = 1)
    => /\ Len(wcAsm) = Len(asm0)
       /\ \E i, j \in 1..Len(asm0) :
            /\ asm0[i].kind = "decl" /\ asm0[i].name = "AssemblyVersion"
            /\ asm0[j].kind = "decl" /\ asm0[j].name = "AssemblyFileVersion"
            /\ wcAsm[i] = [asm0[i] EXCEPT !.lit = wcAsm[i].lit]
            /\ wcAsm[j] = [asm0[j] EXCEPT !.lit = wcAsm[j].lit]
            /\ wcAsm[i].lit = wcAsm[j].lit
            /\ IsDotted(wcAsm[i].lit, 4)
            /\ \A k \in 1..Len(asm0) : k \notin {i, j} => wcAsm[k] = asm0[k]

\* C8 amended: a rewrite sets the literal of every occurrence of
\* AssemblyVersion(" or AssemblyFileVersion(" in the file to the same new
\* four-part string and changes nothing else.
C8_EveryOccurrence ==
  (pc = "done" /\ writes = 1)
    => /\ Len(wcAsm) = Len(asm0)
       /\ \A k \in 1..Len(asm0) :
            IF IsOccurrence(asm0[k])
            THEN /\ wcAsm[k] = [asm0[k] EXCEPT !.lit = wcAsm[k].lit]
                 /\ IsDotted(wcAsm[k].lit, 4)
                 /\ Numbers(wcAsm[k].lit) = Take(ver \o <<0, 0, 0, 0>>, 4)
                 /\ \A m \in Occurrences(asm0) : wcAsm[m].lit = wcAsm[k].lit
            ELSE wcAsm[k] = asm0[k]

\* C8 witness: a rewrite of the file with the commented-out template line.
C8_Witness ==
  /\ pc = "done"
  /\ writes = 1
  /\ asm0 = AsmTemplate
  /\ Cardinality(Occurrences(asm0)) = 3

\* C9: with the file changed by the script only, the build a revision records
\* is never below the build its parent records.
C9_BuildNeverDecreases ==
  ~edited =>
    \A r \in 1..Len(revs) :
      (revs[r].p1 # 0 /\ HasBuild(revs[r].asm) /\ HasBuild(revs[revs[r].p1].asm))
        => RecordedBuild(revs[r].asm) >= RecordedBuild(revs[revs[r].p1].asm)

\* C10: when every version literal of the file already is the computed
\* string, the run does not write and the file is as it was; no run writes
\* more than once.
C10_NoSpuriousWrite ==
  /\ writes <= 1
  /\ (Succeeded /\ (\A i \in Occurrences(asm0) : asm0[i].lit = VerString(ver)))
       => (writes = 0 /\ wcAsm = asm0)

\* C10 witness: a successful run that found its version already in the file.
C10_Witness ==
  /\ Succeeded
  /\ writes = 0
  /\ reads # <<>>
  /\ Occurrences(asm0) # {}
  /\ \A i \in Occurrences(asm0) : asm0[i].lit = VerString(ver)
====
